---------------------------- MODULE Spec2Model ----------------------------
(***************************************************************************)
(* A model of ImageAnalyses/ConsensusAnalysis.py: run_ttests, the loop     *)
(* over hypnums that loads the teams' maps of one hypothesis, estimates    *)
(* the pooled moments and the correlation matrix, runs the correlated      *)
(* t-test, and writes the t, 1-p, 1-fdr and tau images.                    *)
(*                                                                         *)
(* Numbers.  A float is a record: [k |-> "num", n, d] is the rational n/d  *)
(* in lowest terms (d > 0), [k |-> "nan"] is NaN, [k |-> "inf", n |-> s]   *)
(* is s * infinity.  Sums, products and quotients are exact; a square      *)
(* root is rounded down to a multiple of 1/Scale.  Division follows numpy: *)
(* x/0 is +-inf, 0/0 and inf*0 are NaN, and none of them raises.           *)
(***************************************************************************)
EXTENDS Integers, Sequences, FiniteSets, TLC

\* ------------------------------------------------------------------ bounds

\* square roots are rounded down to a multiple of 1/Scale
Scale == 100

\* at most MaxTeams maps are found for one hypothesis
MaxTeams == 4

\* run_ttests loops over the first NumHyp hypothesis numbers
NumHyp == 2

\* ------------------------------------------------------------- arithmetic

Abs(x) == IF x < 0 THEN -x ELSE x

Sign(x) == IF x < 0 THEN -1 ELSE IF x = 0 THEN 0 ELSE 1

RECURSIVE GCD(_, _)
GCD(a, b) == IF b = 0 THEN a ELSE GCD(b, a % b)

NaN == [k |-> "nan", n |-> 0, d |-> 1]

Inf(s) == [k |-> "inf", n |-> s, d |-> 1]

\* the rational p/q, q /= 0, in lowest terms
Frac(p, q) ==
    LET g == GCD(Abs(p), Abs(q))
    IN  [k |-> "num", n |-> Sign(q) * (p \div g), d |-> Abs(q) \div g]

Num(i) == Frac(i, 1)

FNeg(x) == IF x.k = "nan" THEN NaN ELSE [x EXCEPT !.n = -x.n]

FAdd(x, y) ==
    IF x.k = "nan" \/ y.k = "nan" THEN NaN
    ELSE IF x.k = "inf" /\ y.k = "inf"
         THEN (IF x.n = y.n THEN x ELSE NaN)
    ELSE IF x.k = "inf" THEN x
    ELSE IF y.k = "inf" THEN y
    ELSE Frac(x.n * y.d + y.n * x.d, x.d * y.d)

FSub(x, y) == FAdd(x, FNeg(y))

FMul(x, y) ==
    IF x.k = "nan" \/ y.k = "nan" THEN NaN
    ELSE IF x.k = "inf" \/ y.k = "inf"
         THEN (IF x.n = 0 \/ y.n = 0 THEN NaN ELSE Inf(Sign(x.n) * Sign(y.n)))
    ELSE Frac(x.n * y.n, x.d * y.d)

\* numpy's true division: a zero divisor gives inf or NaN, never an exception
FDiv(x, y) ==
    IF x.k = "nan" \/ y.k = "nan" THEN NaN
    ELSE IF y.k = "inf"
         THEN (IF x.k = "inf" THEN NaN ELSE Num(0))
    ELSE IF y.n = 0
         THEN (IF x.n = 0 THEN NaN ELSE Inf(Sign(x.n)))
    ELSE IF x.k = "inf" THEN Inf(Sign(x.n) * Sign(y.n))
    ELSE Frac(x.n * y.d, x.d * y.n)

FLess(x, y) ==
    /\ x.k /= "nan" /\ y.k /= "nan"
    /\ IF x.k = "inf" THEN x.n < 0 /\ y /= x
       ELSE IF y.k = "inf" THEN y.n > 0
       ELSE x.n * y.d < y.n * x.d

\* the largest r in lo..hi with r*r <= x
RECURSIVE ISqrtIn(_, _, _)
ISqrtIn(x, lo, hi) ==
    IF lo >= hi THEN lo
    ELSE LET mid == (lo + hi + 1) \div 2
         IN  IF mid * mid <= x THEN ISqrtIn(x, mid, hi) ELSE ISqrtIn(x, lo, mid - 1)

ISqrt(x) == ISqrtIn(x, 0, IF x < 46340 THEN x ELSE 46340)

\* numpy.sqrt: NaN (with a warning, no exception) for a negative argument
FSqrt(x) ==
    IF x.k = "nan" THEN NaN
    ELSE IF x.k = "inf" THEN (IF x.n > 0 THEN x ELSE NaN)
    ELSE IF x.n < 0 THEN NaN
    ELSE Frac(ISqrt((x.n * Scale * Scale) \div x.d), Scale)

\* numpy.clip(x, -1, 1): NaN stays NaN
Clip1(x) ==
    IF x.k = "nan" THEN NaN
    ELSE IF FLess(Num(1), x) THEN Num(1)
    ELSE IF FLess(x, Num(-1)) THEN Num(-1)
    ELSE x

RECURSIVE FSum(_)
FSum(s) == IF s = <<>> THEN Num(0) ELSE FAdd(Head(s), FSum(Tail(s)))

\* numpy.mean of a vector: the sum divided by the length (NaN when empty)
FMean(s) == FDiv(FSum(s), Num(Len(s)))

\* ----------------------------------------------------------------- masker

\* narps.dirs.MNI_mask: the voxels of the grid that are analysed
MNI_mask == <<TRUE, FALSE, TRUE, TRUE>>

Grid == 1 .. Len(MNI_mask)

\* the grid positions inside the mask, in grid order
RECURSIVE MaskPositions(_)
MaskPositions(g) ==
    IF g > Len(MNI_mask) THEN <<>>
    ELSE (IF MNI_mask[g] THEN <<g>> ELSE <<>>) \o MaskPositions(g + 1)

VoxPos == MaskPositions(1)

NVox == Len(VoxPos)

\* masker.fit_transform(maps): one row per map, the in-mask voxels in grid order
fit_transform(imgs) ==
    [t \in 1 .. Len(imgs) |-> [i \in 1 .. NVox |-> imgs[t][VoxPos[i]]]]

\* masker.inverse_transform(vec): scatter the vector into the grid, 0 outside the mask
inverse_transform(vec) ==
    [g \in Grid |->
        IF MNI_mask[g]
        THEN vec[CHOOSE i \in 1 .. NVox : VoxPos[i] = g]
        ELSE Num(0)]

\* ------------------------------------------------------------- statistics

Row(data, t) == [i \in 1 .. Len(data[t]) |-> Num(data[t][i])]

Col(data, i) == [t \in 1 .. Len(data) |-> Num(data[t][i])]

\* numpy.var(x): the mean of the squared deviations from the mean (ddof = 0)
Var(x) ==
    LET m == FMean(x)
    IN  FMean([i \in 1 .. Len(x) |-> FMul(FSub(x[i], m), FSub(x[i], m))])

\* numpy.mean(data): the grand mean of all entries
GrandMean(data) ==
    FDiv(FSum([t \in 1 .. Len(data) |-> FSum(Row(data, t))]),
         Num(Len(data) * NVox))

\* the variance along axis 0 instead (down each column, across the teams)
PooledVarAxis0(data) == FMean([i \in 1 .. NVox |-> Var(Col(data, i))])

\* numpy.mean(numpy.var(data, 1)): the variance along axis 1 (within each row,
\* across the voxels of one team), averaged over the rows
PooledVar(data) == FMean([t \in 1 .. Len(data) |-> Var(Row(data, t))])

\* numpy.cov(data)[a][b]: rows are variables, columns observations, ddof = 1
Cov(data, a, b) ==
    LET x  == Row(data, a)
        y  == Row(data, b)
        mx == FMean(x)
        my == FMean(y)
    IN  FDiv(FSum([i \in 1 .. NVox |-> FMul(FSub(x[i], mx), FSub(y[i], my))]),
             Num(NVox - 1))

\* numpy.corrcoef(data): c[a][b] / stddev[a] / stddev[b], clipped to [-1, 1]
corrcoef(data) ==
    LET stddev == [a \in 1 .. Len(data) |-> FSqrt(Cov(data, a, a))]
    IN  [a \in 1 .. Len(data) |->
            [b \in 1 .. Len(data) |->
                Clip1(FDiv(FDiv(Cov(data, a, b), stddev[a]), stddev[b]))]]

\* the sum of all entries of a matrix of floats
MatSum(Q) == FSum([a \in 1 .. Len(Q) |-> FSum(Q[a])])

\* R = numpy.eye(n) - numpy.ones((n, 1)).dot(numpy.ones((1, n)))/n
Rmat(n) ==
    [a \in 1 .. n |-> [b \in 1 .. n |->
        FSub(Num(IF a = b THEN 1 ELSE 0), FDiv(Num(1), Num(n)))]]

\* numpy.trace(R.dot(Q))
TraceRQ(R, Q) ==
    FSum([a \in 1 .. Len(R) |->
            FSum([b \in 1 .. Len(R) |-> FMul(R[a][b], Q[b][a])])])

\* Y.T.dot(R).dot(Y)
QuadForm(Y, R) ==
    FSum([b \in 1 .. Len(Y) |->
            FMul(FSum([a \in 1 .. Len(Y) |-> FMul(Y[a], R[a][b])]), Y[b])])

\* tau(data, Q): sqrt of (1/sampvar_est) * Y'RY per voxel, no guard on either
tau(data, Q) ==
    LET n           == Len(data)
        R           == Rmat(n)
        sampvar_est == TraceRQ(R, Q)
        tau2        == [i \in 1 .. NVox |->
                          FMul(FDiv(Num(1), sampvar_est), QuadForm(Col(data, i), R))]
    IN  [i \in 1 .. NVox |-> FSqrt(tau2[i])]


\* ------------------------------------------------------------------ t_corr

\* utils.t_corr refuses fewer than two teams, and a pooled variance of 0 or NaN
t_corr_raises(data, res_var) ==
    \/ Len(data) < 2
    \/ res_var.k /= "num"
    \/ res_var.n = 0

\* the two-sided tail probability of |t| under the t distribution with df degrees
\* of freedom, kept symbolic: 0 for an infinite t, NaN for a NaN one
TwoSidedP(t, df) ==
    IF t.k = "nan" THEN NaN
    ELSE IF t.k = "inf" THEN Num(0)
    ELSE [k |-> "p", n |-> Abs(t.n), d |-> t.d, df |-> df]

\* the t values: voxel mean / sqrt(res_var * sum(Q) / n^2)
t_corr_T(data, res_var, Q) ==
    LET n  == Len(data)
        se == FSqrt(FDiv(FMul(res_var, MatSum(Q)), Num(n * n)))
    IN  [i \in 1 .. NVox |-> FDiv(FMean(Col(data, i)), se)]

t_corr_p(data, T) == [i \in 1 .. NVox |-> TwoSidedP(T[i], Len(data) - 1)]

\* 1 - x for a vector of p values
OneMinus(vec) ==
    [i \in 1 .. Len(vec) |->
        IF vec[i].k = "nan" THEN NaN
        ELSE IF vec[i].k = "num" THEN FSub(Num(1), vec[i])
        ELSE [k |-> "1-", of |-> vec[i]]]

\* multipletests(pvals, 0.05, 'fdr_tsbh')[1]: the adjusted p values, kept symbolic;
\* one NaN p value makes every adjusted value NaN (the running minimum starts at it)
multipletests(pvals) ==
    [i \in 1 .. Len(pvals) |->
        IF \E j \in 1 .. Len(pvals) : pvals[j].k = "nan"
        THEN NaN
        ELSE [k |-> "fdr", i |-> i, of |-> pvals]]

\* ------------------------------------------------------------ the program

\* narps.hypnums, the hypothesis numbers run_ttests loops over
hypnums == [i \in 1 .. NumHyp |-> i]

Hyps == {hypnums[i] : i \in 1 .. Len(hypnums)}

\* the four images of a hypothesis
Kinds == {"t", "1-p", "1-fdr", "tau"}

\* a file name that leaves the hypothesis number out
FileNameSameForAll(hyp, kind) == <<"hypo", 1, kind>>

\* os.path.join(results_dir, 'hypo%d_<kind>.nii.gz' % hyp)
FileName(hyp, kind) == <<"hypo", hyp, kind>>

\* the effect maps a team may have submitted (grid images; cell 2 is outside the mask)
EffectMaps ==
    { <<1, 9, 2, 3>>, <<1, 0, 3, 2>>, <<3, 9, 2, 1>>, <<2, 0, 4, 6>>, <<2, 9, 2, 2>> }

\* the sequences of at most n maps drawn from S
RECURSIVE MapLists(_, _)
MapLists(S, n) ==
    IF n = 0 THEN {<<>>}
    ELSE LET shorter == MapLists(S, n - 1)
         IN  shorter \cup {Append(l, m) : l \in {x \in shorter : Len(x) = n - 1}, m \in S}

VARIABLES
    zstat,      \* zstat[hyp]: the maps found by glob for hypothesis hyp, sorted
    dir,        \* the results directory: file name -> image
    pc,         \* the statement run_ttests is at, "idle" when it is not running
    overwrite,  \* the overwrite argument of the current (or last) run
    h,          \* the position of the loop in hypnums
    status,     \* how the current (or last) run stands
    error,      \* the exception that ended the last run, "" if none
    data, img_mean, img_var, cc, tvals, pvals,  \* the locals of run_ttests
    written,    \* the files written by the current (or last) run
    raised,     \* some run so far was ended by an exception
    lastFull    \* the directory as the last completed overwrite=True run left it

vars == <<zstat, dir, pc, overwrite, h, status, error,
          data, img_mean, img_var, cc, tvals, pvals, written, raised, lastFull>>

locals == <<data, img_mean, img_var, cc, tvals, pvals>>

Unset == [k |-> "unset", n |-> 0, d |-> 1]

\* the locals of a call that has not assigned them (or has returned)
NoLocals ==
    /\ data' = <<>>
    /\ img_mean' = Unset
    /\ img_var' = Unset
    /\ cc' = <<>>
    /\ tvals' = <<>>
    /\ pvals' = <<>>

\* the statements of one iteration, in program order
Steps == <<"load", "moments", "ttest", "write_t", "write_p", "write_fdr", "write_tau">>

\* the tau block moved in front of the t-test
StepAfterTauFirst(s) ==
    LET order == <<"load", "moments", "write_tau", "ttest", "write_t", "write_p", "write_fdr">>
        i     == CHOOSE j \in 1 .. Len(order) : order[j] = s
    IN  IF i = Len(order) THEN "check" ELSE order[i + 1]

\* the statement after s in the loop body; after the last one the loop goes on
StepAfter(s) ==
    LET i == CHOOSE j \in 1 .. Len(Steps) : Steps[j] = s
    IN  IF i = Len(Steps) THEN "check" ELSE Steps[i + 1]

\* the test for existing results without 'not overwrite'
UseExistingAlways(ow, d, hyp) == FileName(hyp, "1-fdr") \in DOMAIN d

\* 'if not overwrite and os.path.exists(.../hypo%d_1-fdr.nii.gz)'
UseExisting(ow, d, hyp) == ~ow /\ FileName(hyp, "1-fdr") \in DOMAIN d

\* img.to_filename(name): create or replace the file
ToFilename(d, name, img) ==
    [f \in DOMAIN d \cup {name} |-> IF f = name THEN img ELSE d[f]]

InitWith(inputs) ==
    /\ zstat \in inputs
    /\ dir = <<>>
    /\ pc = "idle"
    /\ overwrite = TRUE
    /\ h = 1
    /\ status = "new"
    /\ error = ""
    /\ data = <<>>
    /\ img_mean = Unset
    /\ img_var = Unset
    /\ cc = <<>>
    /\ tvals = <<>>
    /\ pvals = <<>>
    /\ written = {}
    /\ raised = FALSE
    /\ lastFull = <<>>

\* run_ttests(narps, logfile, overwrite=ow) is called
StartRun(ow) ==
    /\ pc = "idle"
    /\ pc' = "check"
    /\ overwrite' = ow
    /\ h' = 1
    /\ status' = "running"
    /\ error' = ""
    /\ written' = {}
    /\ NoLocals
    /\ UNCHANGED <<zstat, dir, raised, lastFull>>

\* an exception leaves run_ttests: nothing in it catches one
Raise(kind) ==
    /\ pc' = "idle"
    /\ status' = "failed"
    /\ error' = kind
    /\ raised' = TRUE
    /\ NoLocals
    /\ UNCHANGED <<zstat, dir, overwrite, h, written, lastFull>>

\* the statement s is done: on to the next one, or to the next hypothesis
Advance(s) ==
    /\ pc' = StepAfter(s)
    /\ h' = IF StepAfter(s) = "check" THEN h + 1 ELSE h
    /\ UNCHANGED <<zstat, overwrite, status, error, raised, lastFull>>

\* the head of the loop, and the test for existing results
Check ==
    /\ pc = "check"
    /\ h <= Len(hypnums)
    /\ IF UseExisting(overwrite, dir, hypnums[h])
       THEN /\ h' = h + 1
            /\ pc' = "check"
       ELSE /\ h' = h
            /\ pc' = Steps[1]
    /\ UNCHANGED <<zstat, dir, overwrite, status, error, locals, written, raised, lastFull>>

\* the loop is exhausted: run_ttests returns
Return ==
    /\ pc = "check"
    /\ h > Len(hypnums)
    /\ pc' = "idle"
    /\ status' = "completed"
    /\ lastFull' = IF overwrite THEN dir ELSE lastFull
    /\ NoLocals
    /\ UNCHANGED <<zstat, dir, overwrite, h, error, written, raised>>

\* maps = glob(...); maps.sort(); data = masker.fit_transform(maps)
\* (nilearn raises TypeError, "Cannot concatenate empty objects", for no maps)
Load ==
    /\ pc = "load"
    /\ IF Len(zstat[hypnums[h]]) = 0
       THEN Raise("TypeError")
       ELSE /\ data' = fit_transform(zstat[hypnums[h]])
            /\ Advance("load")
            /\ UNCHANGED <<dir, img_mean, img_var, cc, tvals, pvals, written>>

\* img_mean, img_var, cc, and the log line with the mean off-diagonal correlation
\* (corrcoef of a single row is a 0-d array, and triu_indices_from raises ValueError)
Moments ==
    /\ pc = "moments"
    /\ IF Len(data) = 1
       THEN Raise("ValueError")
       ELSE /\ img_mean' = GrandMean(data)
            /\ img_var' = PooledVar(data)
            /\ cc' = corrcoef(data)
            /\ Advance("moments")
            /\ UNCHANGED <<dir, data, tvals, pvals, written>>

\* tvals, pvals = t_corr(data, res_mean=img_mean, res_var=img_var, Q=cc)
TTest ==
    /\ pc = "ttest"
    /\ IF t_corr_raises(data, img_var)
       THEN Raise("DegenerateInput")
       ELSE /\ tvals' = t_corr_T(data, img_var, cc)
            /\ pvals' = t_corr_p(data, t_corr_T(data, img_var, cc))
            /\ Advance("ttest")
            /\ UNCHANGED <<dir, data, img_mean, img_var, cc, written>>

\* masker.inverse_transform(vec).to_filename(name); the write may fail (OSError)
Write(s, kind, vec) ==
    /\ pc = s
    /\ \E ok \in BOOLEAN :
         IF ok
         THEN /\ dir' = ToFilename(dir, FileName(hypnums[h], kind), inverse_transform(vec))
              /\ written' = written \cup {FileName(hypnums[h], kind)}
              /\ Advance(s)
              /\ UNCHANGED locals
         ELSE Raise("OSError")

WriteT == Write("write_t", "t", tvals)

WriteP == Write("write_p", "1-p", OneMinus(pvals))

\* fdr_results = multipletests(pvals[0, :], 0.05, 'fdr_tsbh'), then the 1-fdr image
WriteFdr == Write("write_fdr", "1-fdr", OneMinus(multipletests(pvals)))

\* tau_est = tau(data, cc), then the tau image
WriteTau == Write("write_tau", "tau", tau(data, cc))

\* the process is killed between two statements
Interrupt ==
    /\ pc /= "idle"
    /\ pc' = "idle"
    /\ status' = "interrupted"
    /\ NoLocals
    /\ UNCHANGED <<zstat, dir, overwrite, h, error, written, raised, lastFull>>

Next ==
    \/ \E ow \in BOOLEAN : StartRun(ow)
    \/ Check
    \/ Return
    \/ Load
    \/ Moments
    \/ TTest
    \/ WriteT
    \/ WriteP
    \/ WriteFdr
    \/ WriteTau
    \/ Interrupt

\* what glob may find for one hypothesis in the orchestration runs: no map, one
\* team, identical teams, two different teams, two opposite teams, a constant map,
\* constant maps only
Cases ==
    { <<>>,
      << <<1, 9, 2, 3>> >>,
      << <<1, 9, 2, 3>>, <<1, 9, 2, 3>> >>,
      << <<1, 9, 2, 3>>, <<1, 0, 3, 2>> >>,
      << <<1, 9, 2, 3>>, <<3, 9, 2, 1>> >>,
      << <<1, 9, 2, 3>>, <<2, 9, 2, 2>> >>,
      << <<2, 9, 2, 2>>, <<2, 9, 2, 2>> >> }

\* run_ttests is called any number of times, with either overwrite policy, and
\* may be killed at any statement
Init == InitWith([Hyps -> Cases])

Spec == Init /\ [][Next]_vars

\* the script's own call, run_ttests(narps, logfile): once, overwrite=True
MainRun ==
    /\ status = "new"
    /\ StartRun(TRUE)

NextMain ==
    \/ MainRun
    \/ Check
    \/ Return
    \/ Load
    \/ Moments
    \/ TTest
    \/ WriteT
    \/ WriteP
    \/ WriteFdr
    \/ WriteTau

\* every list of at most MaxTeams maps for the first hypothesis, two different
\* teams for the others
InitMain ==
    InitWith({ [hyp \in Hyps |->
                  IF hyp = hypnums[1] THEN l
                  ELSE << <<1, 9, 2, 3>>, <<1, 0, 3, 2>> >>] :
               l \in MapLists(EffectMaps, MaxTeams) })

SpecMain == InitMain /\ [][NextMain]_vars


\* ------------------------------------------------------------------ claims

\* the name the documentation gives the image of one kind of one hypothesis
ImageOf(hyp, kind) == <<"hypo", hyp, kind>>

ImagesOf(hyp) == {ImageOf(hyp, kind) : kind \in Kinds}

AllImages == UNION {ImagesOf(hyp) : hyp \in Hyps}

WriteSteps == {"write_t", "write_p", "write_fdr", "write_tau"}

\* the feature matrix of a hypothesis
Features(hyp) == fit_transform(zstat[hyp])

\* the image of one kind computed from the maps of hypothesis hyp alone
Expected(hyp, kind) ==
    LET M == Features(hyp)
        Q == corrcoef(M)
        T == t_corr_T(M, PooledVar(M), Q)
        P == t_corr_p(M, T)
    IN  inverse_transform(
            CASE kind = "t"     -> T
              [] kind = "1-p"   -> OneMinus(P)
              [] kind = "1-fdr" -> OneMinus(multipletests(P))
              [] kind = "tau"   -> tau(M, Q))

\* C1: after any sequence of runs, each completed or killed between two
\* statements and none ended by an exception, a run with overwrite=False that
\* completes leaves every hypothesis with all four images
C1_RerunLeavesAllFour ==
    (pc = "idle" /\ status = "completed" /\ ~overwrite /\ ~raised)
        => \A hyp \in Hyps : ImagesOf(hyp) \subseteq DOMAIN dir

\* C2: when the processing of a hypothesis fails, none of that hypothesis's four
\* images written by this run is left in the results directory
C2_FailsAtomically ==
    (pc = "idle" /\ status = "failed")
        => written \cap ImagesOf(hypnums[h]) = {}

\* C3: a failure ends the processing of one hypothesis only: a run that has
\* stopped after a failure has left no hypothesis of hypnums after the failed
\* one unprocessed
C3_ContinuesAfterFailure ==
    (pc = "idle" /\ status = "failed") => h >= Len(hypnums)

\* C4: a step taken while hypothesis hypnums[h] is processed changes only the
\* four images of that hypothesis, also when the step fails, and every image it
\* creates or replaces is the one computed from the maps of its own hypothesis
C4_OnlyOwnFiles ==
    [][ /\ \A f \in (DOMAIN dir \cup DOMAIN dir') :
             \/ f \in DOMAIN dir /\ f \in DOMAIN dir' /\ dir'[f] = dir[f]
             \/ pc \in WriteSteps /\ f \in ImagesOf(hypnums[h])
        /\ \A hyp \in Hyps, kind \in Kinds :
             /\ ImageOf(hyp, kind) \in DOMAIN dir'
             /\ ImageOf(hyp, kind) \in DOMAIN dir
                    => dir'[ImageOf(hyp, kind)] /= dir[ImageOf(hyp, kind)]
             => dir'[ImageOf(hyp, kind)] = Expected(hyp, kind)
      ]_vars

\* C4 witness: the second hypothesis failed part-way, after writing some of its
\* images, while the four images of the first one are in the directory
C4_Witness ==
    /\ pc = "idle" /\ status = "failed" /\ h = 2
    /\ written \cap ImagesOf(hypnums[2]) /= {}
    /\ ImagesOf(hypnums[1]) \subseteq DOMAIN dir
    /\ zstat[hypnums[1]] /= zstat[hypnums[2]]

\* C5: when a run with overwrite=True returns, the directory holds exactly the
\* four images of every hypothesis of hypnums, and it is the directory the last
\* completed overwrite=True run left
C5_FourImagesIdempotent ==
    [][ (pc' = "idle" /\ status' = "completed" /\ overwrite')
            => /\ DOMAIN dir' = AllImages
               /\ lastFull /= <<>> => dir' = lastFull
      ]_vars

\* C5 witness: a second overwrite=True run has processed every hypothesis and
\* is about to return
C5_Witness ==
    /\ pc = "check" /\ h > Len(hypnums) /\ overwrite
    /\ lastFull /= <<>>
    /\ written = AllImages

\* the feature matrix is degenerate: fewer than two teams, or a pooled variance
\* of zero or NaN
Degenerate(M) ==
    \/ Len(M) < 2
    \/ PooledVar(M).k /= "num"
    \/ PooledVar(M).n = 0

C7_NoNaNWritten ==
    \A f \in DOMAIN dir : \A g \in Grid : dir[f][g].k \notin {"nan", "inf"}

\* C8: every voxel of every tau image is a number >= 0
C8_TauNonNegative ==
    \A hyp \in Hyps :
        ImageOf(hyp, "tau") \in DOMAIN dir
            => \A g \in Grid :
                   /\ dir[ImageOf(hyp, "tau")][g].k = "num"
                   /\ dir[ImageOf(hyp, "tau")][g].n >= 0

\* all teams submitted the same in-mask values
IdenticalTeams(M) == Len(M) >= 2 /\ \A a \in 1 .. Len(M) : M[a] = M[1]

\* C9: when all team rows are identical, tau is 0 (to within 1/Scale) at every
\* voxel
C9_IdenticalTeamsTauZero ==
    \A hyp \in Hyps :
        (ImageOf(hyp, "tau") \in DOMAIN dir /\ IdenticalTeams(Features(hyp)))
            => \A g \in Grid :
                   /\ dir[ImageOf(hyp, "tau")][g].k = "num"
                   /\ Abs(dir[ImageOf(hyp, "tau")][g].n) * Scale
                          <= dir[ImageOf(hyp, "tau")][g].d

\* the mean of the squares minus the square of the mean
MeanSqMinusSqMean(x) ==
    FSub(FMean([i \in 1 .. Len(x) |-> FMul(x[i], x[i])]), FMul(FMean(x), FMean(x)))

\* C10 as stated: the variance passed to t_corr is the mean over voxels of the
\* variance across teams (down each column), with either divisor
C10_VarianceAcrossTeams ==
    pc = "ttest"
        => \/ img_var = FMean([i \in 1 .. NVox |-> MeanSqMinusSqMean(Col(data, i))])
           \/ img_var = FMul(FDiv(Num(Len(data)), Num(Len(data) - 1)),
                             FMean([i \in 1 .. NVox |-> MeanSqMinusSqMean(Col(data, i))]))

\* the entries of data, one after the other
RECURSIVE Flatten(_)
Flatten(M) == IF M = <<>> THEN <<>> ELSE [i \in 1 .. Len(Head(M)) |-> Num(Head(M)[i])] \o Flatten(Tail(M))

\* C10 amended: the variance passed to t_corr is the mean over teams of the
\* variance across voxels (along each row, divisor v); it is one scalar, passed
\* with the grand mean of all entries and the n x n row correlation matrix
C10_VarianceAcrossVoxels ==
    pc = "ttest"
        => /\ img_var = FMean([t \in 1 .. Len(data) |-> MeanSqMinusSqMean(Row(data, t))])
           /\ img_var.k \in {"num", "nan"}
           /\ img_mean = FMean(Flatten(data))
           /\ Len(cc) = Len(data)
           /\ \A a \in 1 .. Len(cc) : Len(cc[a]) = Len(data)
           /\ \A a \in 1 .. Len(cc) : cc[a][a].k = "num" => cc[a][a] = Num(1)
           /\ \A a, b \in 1 .. Len(cc) : cc[a][b] = cc[b][a]

\* C10 witness: the t-test is about to be called on four teams whose variance
\* along the rows differs from the variance down the columns
C10_Witness ==
    /\ pc = "ttest" /\ Len(data) = 4
    /\ img_var /= PooledVarAxis0(data)
    /\ img_var.k = "num" /\ img_var.n > 0

=============================================================================
